---- MODULE Spec2Model ----
(***************************************************************************)
(* Model of no_std_strings: the length-prefixed fixed string tstr<N> of    *)
(* src/src/tiny_internal.rs and the formatting macros of src/src/lib.rs.   *)
(*                                                                         *)
(* A tstr<N> is the array chrs: [u8; N].  It is modelled as a sequence of  *)
(* N bytes; the Rust index chrs[k] is element k+1 of the sequence.  A &str *)
(* is modelled as the sequence of its UTF-8 bytes, a char as its code      *)
(* point.  Encoding and decoding are computed byte by byte.                *)
(***************************************************************************)
EXTENDS Integers, Sequences, FiniteSets, TLC

(***************************************************************************)
(* Bounds of the model.                                                    *)
(***************************************************************************)
\* largest number of characters of an input &str
MaxIn == 2
\* largest number of text fragments of one formatted write
MaxFrags == 2
\* largest index argument (character or byte position)
MaxIdx == 5

\* capacity parameter of the working string: str4 = tstr<4>
N4 == 4

(***************************************************************************)
(* Integer helpers.                                                        *)
(***************************************************************************)
\* `x as u8`
U8(x) == x % 256

\* core::cmp::min
min(a, b) == IF a < b THEN a ELSE b

(***************************************************************************)
(* UTF-8: char::len_utf8, char::encode_utf8, str::chars, char_indices.     *)
(***************************************************************************)
\* char::len_utf8
len_utf8(c) ==
    IF c < 128 THEN 1
    ELSE IF c < 2048 THEN 2
    ELSE IF c < 65536 THEN 3
    ELSE 4

\* char::encode_utf8: the bytes of the encoding of code point c
encode_utf8(c) ==
    IF c < 128 THEN <<c>>
    ELSE IF c < 2048 THEN <<192 + (c \div 64), 128 + (c % 64)>>
    ELSE IF c < 65536 THEN
        <<224 + (c \div 4096), 128 + ((c \div 64) % 64), 128 + (c % 64)>>
    ELSE <<240 + (c \div 262144), 128 + ((c \div 4096) % 64),
           128 + ((c \div 64) % 64), 128 + (c % 64)>>

\* width of the encoded character that starts with lead byte b
utf8_char_width(b) ==
    IF b < 128 THEN 1
    ELSE IF b < 224 THEN 2
    ELSE IF b < 240 THEN 3
    ELSE 4

\* code point of the encoded character bs (one whole character)
decode_utf8(bs) ==
    IF Len(bs) = 1 THEN bs[1]
    ELSE IF Len(bs) = 2 THEN (bs[1] - 192) * 64 + (bs[2] - 128)
    ELSE IF Len(bs) = 3 THEN
        (bs[1] - 224) * 4096 + (bs[2] - 128) * 64 + (bs[3] - 128)
    ELSE (bs[1] - 240) * 262144 + (bs[2] - 128) * 4096
         + (bs[3] - 128) * 64 + (bs[4] - 128)

\* true when the bytes bs are whole, well-formed encoded characters
RECURSIVE IsUtf8(_)
IsUtf8(bs) ==
    IF bs = <<>> THEN TRUE
    ELSE LET w == utf8_char_width(bs[1])
         IN /\ bs[1] < 128 \/ bs[1] >= 192
            /\ w <= Len(bs)
            /\ \A k \in 2..w : bs[k] >= 128 /\ bs[k] < 192
            /\ encode_utf8(decode_utf8(SubSeq(bs, 1, w))) = SubSeq(bs, 1, w)
            /\ IsUtf8(SubSeq(bs, w + 1, Len(bs)))

\* str::char_indices of a valid &str: the sequence of <<byte offset, char>>
RECURSIVE CharIndicesFrom(_, _)
CharIndicesFrom(bs, bi) ==
    IF bi >= Len(bs) THEN <<>>
    ELSE LET w == min(utf8_char_width(bs[bi + 1]), Len(bs) - bi)
         IN <<(<<bi, decode_utf8(SubSeq(bs, bi + 1, bi + w))>>)>>
            \o CharIndicesFrom(bs, bi + w)

char_indices(bs) == CharIndicesFrom(bs, 0)

\* str::chars: the sequence of code points
chars(bs) == [k \in 1..Len(char_indices(bs)) |-> char_indices(bs)[k][2]]

\* str::as_bytes of the &str with characters cs (a sequence of code points)
RECURSIVE StrOf(_)
StrOf(cs) ==
    IF cs = <<>> THEN <<>> ELSE encode_utf8(Head(cs)) \o StrOf(Tail(cs))

\* str::is_char_boundary
is_char_boundary(bs, n) ==
    IF n = 0 THEN TRUE
    ELSE IF n >= Len(bs) THEN n = Len(bs)
    ELSE bs[n + 1] < 128 \/ bs[n + 1] >= 192

(***************************************************************************)
(* The array chrs and the slice operations on it.                          *)
(***************************************************************************)
\* [0u8; N]
Zeros(N) == [k \in 1..N |-> 0]

\* buf[from .. from+Len(bs)].copy_from_slice(bs)
CopyInto(buf, from, bs) ==
    [k \in 1..Len(buf) |->
        IF k - 1 >= from /\ k - 1 < from + Len(bs) THEN bs[k - from] ELSE buf[k]]

\* buf[0] = v
SetLen(buf, v) == [buf EXCEPT ![1] = v]

\* tstr::len
len(buf) == buf[1]

\* tstr::capacity
capacity(buf) == Len(buf) - 1

\* tstr::as_bytes / tstr::to_str: &self.chrs[1..self.len()+1]
to_str(buf) == SubSeq(buf, 2, len(buf) + 1)

\* tstr::charlen
charlen(buf) == Len(chars(to_str(buf)))

(***************************************************************************)
(* Construction.                                                           *)
(***************************************************************************)
\* tstr::create: never panics, keeps the first N-1 bytes
create(N, s) ==
    LET blen == Len(s)
        limit == min(N - 1, blen)
        chars0 == CopyInto(Zeros(N), 1, SubSeq(s, 1, limit))
        chars1 == SetLen(chars0, U8(limit))
    IN IF chars1[1] = 0 THEN SetLen(chars1, U8(blen)) ELSE chars1

\* make without the capacity check: truncates like create
make_NoPanic(N, s) == [panicked |-> FALSE, chrs |-> create(N, s)]

\* tstr::make: panics when the byte length of s is >= N
make(N, s) ==
    LET blen == Len(s)
        limit == min(N - 1, blen)
        chars0 == CopyInto(Zeros(N), 1, SubSeq(s, 1, limit))
        chars1 == SetLen(chars0, U8(limit))
    IN IF blen >= N
       THEN [panicked |-> TRUE, chrs |-> Zeros(N)]
       ELSE [panicked |-> FALSE,
             chrs |-> IF chars1[1] = 0 THEN SetLen(chars1, U8(blen)) ELSE chars1]

\* try_make that lets a string of N bytes through to make
try_make_WrongBound(N, s) ==
    IF Len(s) > N
    THEN [ok |-> FALSE, panicked |-> FALSE, chrs |-> <<>>, err |-> s]
    ELSE LET r == make(N, s)
         IN [ok |-> TRUE, panicked |-> r.panicked, chrs |-> r.chrs, err |-> <<>>]

\* tstr::try_make: Err(s) when s.len() > N - 1, else Ok(tstr::make(s))
try_make(N, s) ==
    IF Len(s) > N - 1
    THEN [ok |-> FALSE, panicked |-> FALSE, chrs |-> <<>>, err |-> s]
    ELSE LET r == make(N, s)
         IN [ok |-> TRUE, panicked |-> r.panicked, chrs |-> r.chrs, err |-> <<>>]

\* tstr::new and Default::default: make("")
new(N) == make(N, <<>>).chrs

(***************************************************************************)
(* Mutation.                                                               *)
(***************************************************************************)
\* set without the comparison of the encoded lengths
set_NoWidthCheck(buf, i, c) ==
    LET cbuf == encode_utf8(c)
        clen == len_utf8(c)
        ci == char_indices(to_str(buf))
    IN IF i + 1 <= Len(ci)
       THEN [chrs |-> CopyInto(buf, ci[i + 1][1] + 1, SubSeq(cbuf, 1, clen)),
             ok |-> TRUE]
       ELSE [chrs |-> buf, ok |-> FALSE]

\* tstr::set
set(buf, i, c) ==
    LET cbuf == encode_utf8(c)
        clen == len_utf8(c)
        ci == char_indices(to_str(buf))
    IN IF i + 1 <= Len(ci) /\ clen = len_utf8(ci[i + 1][2])
       THEN [chrs |-> CopyInto(buf, ci[i + 1][1] + 1, SubSeq(cbuf, 1, clen)),
             ok |-> TRUE]
       ELSE [chrs |-> buf, ok |-> FALSE]

\* PushLoop with sci advanced by one per character instead of clen
RECURSIVE PushLoopSciCountsChars(_, _, _, _, _)
PushLoopSciCountsChars(buf, s, k, i, sci) ==
    IF k > Len(chars(s))
    THEN [chrs |-> IF i < Len(buf) THEN SetLen(buf, U8(i)) ELSE buf,
          rest |-> SubSeq(s, sci + 1, Len(s))]
    ELSE LET c == chars(s)[k]
             clen == len_utf8(c)
         IN IF i + clen + 1 <= Len(buf)
            THEN PushLoopSciCountsChars(
                     CopyInto(buf, i + 1, SubSeq(encode_utf8(c), 1, clen)),
                     s, k + 1, i + clen, sci + 1)
            ELSE [chrs |-> SetLen(buf, U8(i)),
                  rest |-> SubSeq(s, sci + 1, Len(s))]

\* the loop `for c in s.chars()` of tstr::push, at character k of s, with
\* i bytes stored and sci bytes of s consumed
RECURSIVE PushLoop(_, _, _, _, _)
PushLoop(buf, s, k, i, sci) ==
    IF k > Len(chars(s))
    THEN [chrs |-> IF i < Len(buf) THEN SetLen(buf, U8(i)) ELSE buf,
          rest |-> SubSeq(s, sci + 1, Len(s))]
    ELSE LET c == chars(s)[k]
             clen == len_utf8(c)
         IN IF i + clen + 1 <= Len(buf)
            THEN PushLoop(CopyInto(buf, i + 1, SubSeq(encode_utf8(c), 1, clen)),
                          s, k + 1, i + clen, sci + clen)
            ELSE [chrs |-> SetLen(buf, U8(i)),
                  rest |-> SubSeq(s, sci + 1, Len(s))]

\* tstr::push (and its alias push_str): returns the part of s not pushed
push(buf, s) ==
    IF Len(s) < 1 THEN [chrs |-> buf, rest |-> s]
    ELSE PushLoop(buf, s, 1, len(buf), 0)

\* truncate storing the character position n instead of the byte offset bi
truncate_StoresCharIndex(buf, n) ==
    LET ci == char_indices(to_str(buf))
    IN IF n + 1 <= Len(ci) THEN SetLen(buf, U8(n)) ELSE buf

\* tstr::truncate: n is a character position
truncate(buf, n) ==
    LET ci == char_indices(to_str(buf))
    IN IF n + 1 <= Len(ci) THEN SetLen(buf, U8(ci[n + 1][1])) ELSE buf

\* truncate_bytes without the assert!: stores n wherever it lands
truncate_bytes_NoAssert(buf, n) ==
    IF n < buf[1]
    THEN [panicked |-> FALSE, chrs |-> SetLen(buf, U8(n))]
    ELSE [panicked |-> FALSE, chrs |-> buf]

\* tstr::truncate_bytes: panics when n is inside a character
truncate_bytes(buf, n) ==
    IF n < buf[1]
    THEN IF is_char_boundary(to_str(buf), n)
         THEN [panicked |-> FALSE, chrs |-> SetLen(buf, U8(n))]
         ELSE [panicked |-> TRUE, chrs |-> buf]
    ELSE [panicked |-> FALSE, chrs |-> buf]

\* tstr::clear
clear(buf) == SetLen(buf, 0)

\* tstr::make_ascii_lowercase: *b |= 32 for 65 <= *b <= 90 (bit 5 is clear
\* in that range, so the or adds 32)
make_ascii_lowercase(buf) ==
    [k \in 1..Len(buf) |->
        IF k >= 2 /\ k <= buf[1] + 1 /\ buf[k] >= 65 /\ buf[k] <= 90
        THEN buf[k] + 32 ELSE buf[k]]

\* make_ascii_uppercase without the upper limit 122 on the byte
make_ascii_uppercase_NoUpperLimit(buf) ==
    [k \in 1..Len(buf) |->
        IF k >= 2 /\ k <= buf[1] + 1 /\ buf[k] >= 97
        THEN buf[k] - 32 ELSE buf[k]]

\* tstr::make_ascii_uppercase
make_ascii_uppercase(buf) ==
    [k \in 1..Len(buf) |->
        IF k >= 2 /\ k <= buf[1] + 1 /\ buf[k] >= 97 /\ buf[k] <= 122
        THEN buf[k] - 32 ELSE buf[k]]

(***************************************************************************)
(* Comparison.                                                             *)
(***************************************************************************)
\* Ord for [u8]: lexicographic comparison of two byte slices, decided by
\* the first index where they differ, else by their lengths
SliceCmp(x, y) ==
    LET n == min(Len(x), Len(y))
        diff == {k \in 1..n : x[k] # y[k]}
        first == CHOOSE k \in diff : \A j \in diff : k <= j
    IN IF diff # {}
       THEN (IF x[first] < y[first] THEN "Less" ELSE "Greater")
       ELSE IF Len(x) < Len(y) THEN "Less"
       ELSE IF Len(x) > Len(y) THEN "Greater"
       ELSE "Equal"

\* Ord::cmp for tstr: compares chrs[1..len+1] of both
cmp(a, b) == SliceCmp(to_str(a), to_str(b))

\* #[derive(PartialEq, Eq)] on struct tstr { chrs: [u8; N] }: field equality
eq(a, b) == a = b

(***************************************************************************)
(* Derived copies.                                                         *)
(***************************************************************************)
\* resize that copies the bytes but leaves chars[0] at 0
resize_ForgetsLength(buf, N) ==
    LET slen == len(buf)
        length == IF slen < N - 1 THEN slen ELSE N - 1
    IN CopyInto(Zeros(N), 1, SubSeq(buf, 2, length + 1))

\* tstr<M>::resize::<N>
resize(buf, N) ==
    LET slen == len(buf)
        length == IF slen < N - 1 THEN slen ELSE N - 1
    IN SetLen(CopyInto(Zeros(N), 1, SubSeq(buf, 2, length + 1)), U8(length))

\* tstr<M>::reallocate::<N>
reallocate(buf, N) ==
    IF len(buf) < N THEN [some |-> TRUE, chrs |-> resize(buf, N)]
    ELSE [some |-> FALSE, chrs |-> Zeros(N)]

\* tstr::substr: panics on inds.nth(start).unwrap() when start is not a
\* character index
substr(buf, start, end) ==
    LET N == Len(buf)
        inds == char_indices(to_str(buf))
        slen == len(buf)
        chars0 == SetLen(Zeros(N), U8(end - start))
        si == inds[start + 1][1]
        last == IF end >= slen THEN slen
                ELSE IF end + 1 <= Len(inds) THEN inds[end + 1][1]
                ELSE slen
    IN IF start >= slen \/ end <= start
       THEN [panicked |-> FALSE, chrs |-> Zeros(N)]
       ELSE IF start + 1 > Len(inds)
       THEN [panicked |-> TRUE, chrs |-> Zeros(N)]
       ELSE [panicked |-> FALSE,
             chrs |-> CopyInto(chars0, 1, SubSeq(buf, si + 2, last + 1))]

(***************************************************************************)
(* Concatenation.                                                          *)
(***************************************************************************)
\* the impls of Add: <<capacity parameter of Self, of Output>>
AddRungs ==
    { <<8, 16>>, <<16, 32>>, <<32, 64>>, <<64, 128>>, <<128, 256>>,
      <<4, 8>>, <<12, 24>>, <<24, 48>>, <<48, 96>>, <<96, 192>> }

\* Output of Add for Self = tstr<N>
AddOutput(N) == (CHOOSE r \in AddRungs : r[1] = N)[2]

\* add copying other.chrs[0..olen], the length byte included
add_CopiesFromLengthByte(self, other) ==
    LET cat == resize(self, AddOutput(Len(self)))
        slen == len(self)
        olen == len(other)
    IN IF slen + olen + 1 > Len(cat) \/ olen + 1 > Len(other)
       THEN [panicked |-> TRUE, chrs |-> cat]
       ELSE [panicked |-> FALSE,
             chrs |-> SetLen(CopyInto(cat, slen + 1, SubSeq(other, 1, olen)),
                             U8(slen + olen))]

\* Add::add: panics if a slice range leaves its array
add(self, other) ==
    LET cat == resize(self, AddOutput(Len(self)))
        slen == len(self)
        olen == len(other)
    IN IF slen + olen + 1 > Len(cat) \/ olen + 1 > Len(other)
       THEN [panicked |-> TRUE, chrs |-> cat]
       ELSE [panicked |-> FALSE,
             chrs |-> SetLen(CopyInto(cat, slen + 1, SubSeq(other, 2, olen + 1)),
                             U8(slen + olen))]

(***************************************************************************)
(* Formatting: core::fmt::Write and the macros of lib.rs.                  *)
(***************************************************************************)
\* write_str rejecting a fragment that fills the string exactly (>= for >)
write_str_RejectsExactFit(buf, s) ==
    IF Len(s) + len(buf) >= Len(buf) - 1
    THEN [ok |-> FALSE, chrs |-> buf]
    ELSE [ok |-> TRUE, chrs |-> push(buf, s).chrs]

\* <tstr as core::fmt::Write>::write_str
write_str(buf, s) ==
    IF Len(s) + len(buf) > Len(buf) - 1
    THEN [ok |-> FALSE, chrs |-> buf]
    ELSE [ok |-> TRUE, chrs |-> push(buf, s).chrs]

\* write!(&mut buf, ...): one write_str per text fragment, stopping at the
\* first that returns Err
RECURSIVE write_fmt(_, _)
write_fmt(buf, fs) ==
    IF fs = <<>> THEN [ok |-> TRUE, chrs |-> buf]
    ELSE LET r == write_str(buf, Head(fs))
         IN IF r.ok THEN write_fmt(r.chrs, Tail(fs))
            ELSE [ok |-> FALSE, chrs |-> r.chrs]

\* str_format!: the fresh string after the write, whatever its result
str_format(N, fs) == write_fmt(new(N), fs).chrs

\* try_format!: Some(fstr0) when the write is Ok, None otherwise
try_format(N, fs) ==
    LET r == write_fmt(new(N), fs)
    IN [some |-> r.ok, chrs |-> IF r.ok THEN r.chrs ELSE <<>>]

(***************************************************************************)
(* State.                                                                  *)
(*   cap      the const parameter N of the working string's type           *)
(*   chrs     the working string (self)                                    *)
(*   other    a second string of the same type                             *)
(*   pre      chrs before the last operation                               *)
(*   op       the operation just called on chrs ("other": on other),       *)
(*            "idle" between calls;                                        *)
(*            argS, argI, argJ, frags its arguments                        *)
(*   retS, retB  the &str / bool (is_ok, is_some) it returned              *)
(*   panicked whether it panicked                                          *)
(*   res      the tstr it returned (a derived copy), <<>> if none          *)
(***************************************************************************)
VARIABLES cap, chrs, other, pre, op, argS, argI, argJ, frags,
          retS, retB, panicked, res

vars == <<cap, chrs, other, pre, op, argS, argI, argJ, frags,
          retS, retB, panicked, res>>

\* the characters of the inputs: 'A', 'a', U+03BB, U+03BC
Alphabet == {65, 97, 955, 956}

\* the characters of formatted fragments: 'a', U+03BB
FragAlphabet == {97, 955}

SeqsUpTo(S, n) == UNION {[1..k -> S] : k \in 0..n}

\* the &str arguments
Inputs == {StrOf(cs) : cs \in SeqsUpTo(Alphabet, MaxIn)}

\* the text fragments of a formatted write, and their sequences
Fragments == {StrOf(cs) : cs \in SeqsUpTo(FragAlphabet, MaxIn)}
FragSeqs == SeqsUpTo(Fragments, MaxFrags)

\* the capacity parameters of the aliases str4 .. str256
Ladder == {4, 8, 12, 16, 24, 32, 48, 64, 96, 128, 192, 256}

Init ==
    /\ cap = N4
    /\ chrs = new(N4)
    /\ other = new(N4)
    /\ pre = new(N4)
    /\ op = "idle"
    /\ argS = <<>> /\ argI = 0 /\ argJ = 0 /\ frags = <<>>
    /\ retS = <<>> /\ retB = FALSE /\ panicked = FALSE /\ res = <<>>

\* records the call: operation o with its arguments, on the string chrs
Call(o, s, i, j, fs) ==
    /\ op' = o /\ argS' = s /\ argI' = i /\ argJ' = j /\ frags' = fs
    /\ pre' = chrs
    /\ UNCHANGED <<cap, other>>

\* the call's results
Return(c, rs, rb, p, r) ==
    /\ chrs' = c /\ retS' = rs /\ retB' = rb /\ panicked' = p /\ res' = r

\* chrs = tstr::make(x)
Make ==
    /\ op = "idle"
    /\ \E x \in Inputs :
        /\ Call("make", x, 0, 0, <<>>)
        /\ LET r == make(cap, x)
           IN Return(IF r.panicked THEN chrs ELSE r.chrs,
                     <<>>, FALSE, r.panicked, <<>>)

\* res = tstr::try_make(x), retB = is_ok(), retS = the &str of the Err
TryMake ==
    /\ op = "idle"
    /\ \E x \in Inputs :
        /\ Call("try_make", x, 0, 0, <<>>)
        /\ LET r == try_make(cap, x)
           IN Return(chrs, r.err, r.ok, r.panicked, r.chrs)

\* chrs = tstr::new()
New ==
    /\ op = "idle"
    /\ Call("new", <<>>, 0, 0, <<>>)
    /\ Return(new(cap), <<>>, FALSE, FALSE, <<>>)

\* res = tstr::create(x)
Create ==
    /\ op = "idle"
    /\ \E x \in Inputs :
        /\ Call("create", x, 0, 0, <<>>)
        /\ Return(chrs, <<>>, FALSE, FALSE, create(cap, x))

\* retS = chrs.push(x)
Push ==
    /\ op = "idle"
    /\ \E x \in Inputs :
        /\ Call("push", x, 0, 0, <<>>)
        /\ LET r == push(chrs, x)
           IN Return(r.chrs, r.rest, FALSE, FALSE, <<>>)

\* retB = chrs.set(i, c)
Set ==
    /\ op = "idle"
    /\ \E i \in 0..MaxIdx, c \in Alphabet :
        /\ Call("set", <<>>, i, c, <<>>)
        /\ LET r == set(chrs, i, c)
           IN Return(r.chrs, <<>>, r.ok, FALSE, <<>>)

\* chrs.truncate(n)
Truncate ==
    /\ op = "idle"
    /\ \E n \in 0..MaxIdx :
        /\ Call("truncate", <<>>, n, 0, <<>>)
        /\ Return(truncate(chrs, n), <<>>, FALSE, FALSE, <<>>)

\* chrs.truncate_bytes(n)
TruncateBytes ==
    /\ op = "idle"
    /\ \E n \in 0..MaxIdx :
        /\ Call("truncate_bytes", <<>>, n, 0, <<>>)
        /\ LET r == truncate_bytes(chrs, n)
           IN Return(r.chrs, <<>>, FALSE, r.panicked, <<>>)

\* chrs.clear()
Clear ==
    /\ op = "idle"
    /\ Call("clear", <<>>, 0, 0, <<>>)
    /\ Return(clear(chrs), <<>>, FALSE, FALSE, <<>>)

\* chrs.make_ascii_lowercase()
MakeAsciiLowercase ==
    /\ op = "idle"
    /\ Call("make_ascii_lowercase", <<>>, 0, 0, <<>>)
    /\ Return(make_ascii_lowercase(chrs), <<>>, FALSE, FALSE, <<>>)

\* chrs.make_ascii_uppercase()
MakeAsciiUppercase ==
    /\ op = "idle"
    /\ Call("make_ascii_uppercase", <<>>, 0, 0, <<>>)
    /\ Return(make_ascii_uppercase(chrs), <<>>, FALSE, FALSE, <<>>)

\* res = chrs + o, where o = tstr::make(x) shortened by truncate(n)
Add ==
    /\ op = "idle"
    /\ \E x \in Inputs, n \in 0..MaxIdx :
        /\ ~make(cap, x).panicked
        /\ Call("add", x, n, 0, <<>>)
        /\ LET r == add(chrs, truncate(make(cap, x).chrs, n))
           IN Return(chrs, <<>>, FALSE, r.panicked, r.chrs)

\* res = chrs.substr(i, j)
Substr ==
    /\ op = "idle"
    /\ \E i \in 0..MaxIdx, j \in 0..MaxIdx :
        /\ Call("substr", <<>>, i, j, <<>>)
        /\ LET r == substr(chrs, i, j)
           IN Return(chrs, <<>>, FALSE, r.panicked,
                     IF r.panicked THEN <<>> ELSE r.chrs)

\* res = chrs.resize::<M>()
Resize ==
    /\ op = "idle"
    /\ \E M \in Ladder :
        /\ Call("resize", <<>>, M, 0, <<>>)
        /\ Return(chrs, <<>>, FALSE, FALSE, resize(chrs, M))

\* res = chrs.reallocate::<M>(), retB = is_some()
Reallocate ==
    /\ op = "idle"
    /\ \E M \in Ladder :
        /\ Call("reallocate", <<>>, M, 0, <<>>)
        /\ LET r == reallocate(chrs, M)
           IN Return(chrs, <<>>, r.some, FALSE, IF r.some THEN r.chrs ELSE <<>>)

\* retB = write!(&mut chrs, ...).is_ok(), with the text fragments fs
Write ==
    /\ op = "idle"
    /\ \E fs \in FragSeqs :
        /\ Call("write", <<>>, 0, 0, fs)
        /\ LET r == write_fmt(chrs, fs)
           IN Return(r.chrs, <<>>, r.ok, FALSE, <<>>)

\* res = try_format!(strN, ...), retB = is_some()
TryFormat ==
    /\ op = "idle"
    /\ \E fs \in FragSeqs :
        /\ Call("try_format", <<>>, 0, 0, fs)
        /\ LET r == try_format(cap, fs)
           IN Return(chrs, <<>>, r.some, FALSE, r.chrs)

\* res = str_format!(strN, ...)
StrFormat ==
    /\ op = "idle"
    /\ \E fs \in FragSeqs :
        /\ Call("str_format", <<>>, 0, 0, fs)
        /\ Return(chrs, <<>>, FALSE, FALSE, str_format(cap, fs))

\* the caller is done with what the last call returned
Drop ==
    /\ op # "idle"
    /\ op' = "idle"
    /\ argS' = <<>> /\ argI' = 0 /\ argJ' = 0 /\ frags' = <<>>
    /\ retS' = <<>> /\ retB' = FALSE /\ panicked' = FALSE /\ res' = <<>>
    /\ pre' = chrs
    /\ UNCHANGED <<cap, chrs, other>>

Next ==
    \/ Drop
    \/ Make
    \/ TryMake
    \/ New
    \/ Create
    \/ Push
    \/ Set
    \/ Truncate
    \/ TruncateBytes
    \/ Clear
    \/ MakeAsciiLowercase
    \/ MakeAsciiUppercase
    \/ Add
    \/ Substr
    \/ Resize
    \/ Reallocate
    \/ Write
    \/ TryFormat
    \/ StrFormat

Spec == Init /\ [][Next]_vars

(***************************************************************************)
(* The capacity ladder: two strings chrs and other of one of the types     *)
(* str4 .. str256, built from inputs of chosen lengths, shortened in       *)
(* place, compared and concatenated.                                       *)
(***************************************************************************)
\* the capacity parameters N of the types tstr<N> that implement Add
AddSources == {r[1] : r \in AddRungs}

\* the byte lengths tried for capacity parameter N: empty, one byte, about
\* half and full
Lens(N) == {0, 1, N \div 2, N - 1}

\* byte lengths that exceed the capacity N - 1
OverLens(N) == {N, N + 1, 300}

\* a &str of l bytes: v = 0 gives "bcabca...", v = 1 gives U+03BB repeated
\* (and a final 'z' when l is odd)
Pattern(l, v) ==
    [k \in 1..l |->
        IF v = 0 THEN 97 + (k % 3)
        ELSE IF k = l /\ l % 2 = 1 THEN 122
        ELSE IF k % 2 = 1 THEN 206 ELSE 187]

InitLadder ==
    /\ cap \in Ladder
    /\ chrs = new(cap)
    /\ other = new(cap)
    /\ pre = new(cap)
    /\ op = "idle"
    /\ argS = <<>> /\ argI = 0 /\ argJ = 0 /\ frags = <<>>
    /\ retS = <<>> /\ retB = FALSE /\ panicked = FALSE /\ res = <<>>

\* what a ladder step leaves alone
LadderFrame == pre' = chrs /\ UNCHANGED <<cap, argI, argJ, frags, retS, retB>>

\* chrs = tstr::make(s)
LadderMake ==
    /\ op = "idle"
    /\ \E l \in Lens(cap) \cup OverLens(cap), v \in {0, 1} :
        LET r == make(cap, Pattern(l, v))
        IN /\ argS' = Pattern(l, v)
           /\ chrs' = (IF r.panicked THEN chrs ELSE r.chrs)
           /\ panicked' = r.panicked
    /\ op' = "make" /\ res' = <<>>
    /\ UNCHANGED other /\ LadderFrame

\* chrs = tstr::new()
LadderNew ==
    /\ op = "idle"
    /\ chrs' = new(cap)
    /\ op' = "new" /\ argS' = <<>> /\ panicked' = FALSE /\ res' = <<>>
    /\ UNCHANGED other /\ LadderFrame

\* other = tstr::make(s)
LadderMakeOther ==
    /\ op = "idle"
    /\ \E l \in Lens(cap), v \in {0, 1} : other' = make(cap, Pattern(l, v)).chrs
    /\ op' = "other" /\ argS' = <<>> /\ panicked' = FALSE /\ res' = <<>>
    /\ UNCHANGED chrs /\ LadderFrame

\* res = tstr::create(s)
LadderCreate ==
    /\ op = "idle"
    /\ \E l \in Lens(cap) \cup OverLens(cap), v \in {0, 1} :
        /\ argS' = Pattern(l, v)
        /\ res' = create(cap, Pattern(l, v))
    /\ op' = "create" /\ panicked' = FALSE
    /\ UNCHANGED <<chrs, other>> /\ LadderFrame

\* chrs.truncate_bytes(n)
LadderTruncateBytes ==
    /\ op = "idle"
    /\ \E n \in Lens(cap) :
        LET r == truncate_bytes(chrs, n)
        IN chrs' = r.chrs /\ panicked' = r.panicked
    /\ op' = "truncate_bytes" /\ argS' = <<>> /\ res' = <<>>
    /\ UNCHANGED other /\ LadderFrame

\* other.truncate_bytes(n)
LadderTruncateBytesOther ==
    /\ op = "idle"
    /\ \E n \in Lens(cap) :
        LET r == truncate_bytes(other, n)
        IN other' = r.chrs /\ panicked' = r.panicked
    /\ op' = "other" /\ argS' = <<>> /\ res' = <<>>
    /\ UNCHANGED chrs /\ LadderFrame

\* chrs.clear()
LadderClear ==
    /\ op = "idle"
    /\ chrs' = clear(chrs)
    /\ op' = "clear" /\ argS' = <<>> /\ panicked' = FALSE /\ res' = <<>>
    /\ UNCHANGED other /\ LadderFrame

\* other.clear()
LadderClearOther ==
    /\ op = "idle"
    /\ other' = clear(other)
    /\ op' = "other" /\ argS' = <<>> /\ panicked' = FALSE /\ res' = <<>>
    /\ UNCHANGED chrs /\ LadderFrame

\* res = tstr::try_make(s), retB = is_ok(), retS = the &str of the Err
LadderTryMake ==
    /\ op = "idle"
    /\ \E l \in Lens(cap) \cup OverLens(cap), v \in {0, 1} :
        LET r == try_make(cap, Pattern(l, v))
        IN /\ argS' = Pattern(l, v)
           /\ res' = r.chrs /\ retB' = r.ok /\ retS' = r.err
           /\ panicked' = r.panicked
    /\ op' = "try_make" /\ pre' = chrs
    /\ UNCHANGED <<cap, chrs, other, argI, argJ, frags>>

\* res = chrs.reallocate::<M>(), retB = is_some()
LadderReallocate ==
    /\ op = "idle"
    /\ \E M \in Ladder :
        LET r == reallocate(chrs, M)
        IN /\ argI' = M /\ retB' = r.some
           /\ res' = (IF r.some THEN r.chrs ELSE <<>>)
    /\ op' = "reallocate" /\ argS' = <<>> /\ panicked' = FALSE /\ pre' = chrs
    /\ UNCHANGED <<cap, chrs, other, argJ, frags, retS>>

\* res = chrs.resize::<M>()
LadderResize ==
    /\ op = "idle"
    /\ \E M \in Ladder : argI' = M /\ res' = resize(chrs, M)
    /\ op' = "resize" /\ argS' = <<>> /\ panicked' = FALSE /\ pre' = chrs
    /\ UNCHANGED <<cap, chrs, other, argJ, frags, retS, retB>>

\* res = res.resize::<cap>(): the copy made by resize, brought back to the
\* capacity of chrs
LadderResizeBack ==
    /\ op = "resize"
    /\ res' = resize(res, cap)
    /\ op' = "resize_back"
    /\ UNCHANGED <<cap, chrs, other, pre, argS, argI, argJ, frags, retS, retB,
                   panicked>>

\* res = chrs + other, for the types that implement Add
LadderAdd ==
    /\ op = "idle"
    /\ cap \in AddSources
    /\ LET r == add(chrs, other)
       IN res' = r.chrs /\ panicked' = r.panicked
    /\ op' = "add" /\ argS' = <<>>
    /\ UNCHANGED <<chrs, other>> /\ LadderFrame

NextLadder ==
    \/ Drop
    \/ LadderMake
    \/ LadderNew
    \/ LadderMakeOther
    \/ LadderCreate
    \/ LadderTruncateBytes
    \/ LadderTruncateBytesOther
    \/ LadderClear
    \/ LadderClearOther
    \/ LadderTryMake
    \/ LadderReallocate
    \/ LadderResize
    \/ LadderResizeBack
    \/ LadderAdd

SpecLadder == InitLadder /\ [][NextLadder]_vars

(***************************************************************************)
(* Notions the properties are stated with.                                 *)
(***************************************************************************)
\* buf holds a length within its capacity and whole encoded characters
ValidStr(buf) ==
    /\ len(buf) >= 0 /\ len(buf) <= capacity(buf)
    /\ IsUtf8(to_str(buf))

\* the length byte is within 0 .. N-1, so len() <= capacity()
LenByteInRange(buf) == buf[1] >= 0 /\ buf[1] <= Len(buf) - 1

\* the prefixes of the &str s that end on a character boundary
CharPrefixes(s) == {SubSeq(s, 1, n) : n \in {m \in 0..Len(s) : is_char_boundary(s, m)}}

\* the longest prefix of s, made of whole characters, of at most room bytes
LongestFit(s, room) ==
    CHOOSE p \in CharPrefixes(s) :
        /\ Len(p) <= room
        /\ \A q \in CharPrefixes(s) : Len(q) <= room => Len(q) <= Len(p)

\* the bytes of buf after its valid content (stale or never written)
Beyond(buf) == SubSeq(buf, len(buf) + 2, Len(buf))

\* the characters of s with index in [start, min(end, number of characters))
CharRange(s, start, end) ==
    LET cs == chars(s)
    IN IF start >= Len(cs) \/ end <= start THEN <<>>
       ELSE StrOf(SubSeq(cs, start + 1, min(end, Len(cs))))

\* the concatenation of the fragments fs
RECURSIVE Concat(_)
Concat(fs) == IF fs = <<>> THEN <<>> ELSE Head(fs) \o Concat(Tail(fs))

\* the longest prefix of the fragment sequence fs of at most room bytes
WholeFragmentsThatFit(fs, room) ==
    LET ks == {k \in 0..Len(fs) : Len(Concat(SubSeq(fs, 1, k))) <= room}
        k == CHOOSE m \in ks : \A n \in ks : n <= m
    IN SubSeq(fs, 1, k)

\* failure is reported exactly when the target's length plus the total
\* length of the fragments exceeds N-1, and success appends all fragments
FormatsOrRejects ==
    /\ op = "write" =>
        /\ ~retB <=> (len(pre) + Len(Concat(frags)) > capacity(pre))
        /\ retB => to_str(chrs) = to_str(pre) \o Concat(frags)
    /\ op = "try_format" =>
        /\ ~retB <=> (Len(Concat(frags)) > cap - 1)
        /\ retB => to_str(res) = Concat(frags)
        /\ ~retB => res = <<>>
        /\ chrs = pre

\* new() followed by push of each fragment
RECURSIVE PushAll(_, _)
PushAll(buf, fs) ==
    IF fs = <<>> THEN buf ELSE PushAll(push(buf, Head(fs)).chrs, Tail(fs))

(***************************************************************************)
(* C1  Length-byte invariant: every tstr<N> value produced by the          *)
(* operations, the working string and each returned copy, has              *)
(* 0 <= buffer[0] <= N-1 (len() <= capacity()).                            *)
(***************************************************************************)
C1_LengthByteInvariant ==
    /\ LenByteInRange(chrs)
    /\ res # <<>> => LenByteInRange(res)

(***************************************************************************)
(* C2  push(s) on valid content c appends exactly p, the longest prefix of *)
(* s of whole characters with len(c)+len(p) <= N-1: the content becomes    *)
(* c followed by p, len() is len(c)+len(p), the returned remainder r has   *)
(* s = p followed by r, no byte of an unappended character is written, and *)
(* push("") returns "" and leaves the buffer untouched.                    *)
(***************************************************************************)
C2_PushAppendsLongestFit ==
    (op = "push" /\ ValidStr(pre)) =>
        LET c == to_str(pre)
            p == LongestFit(argS, capacity(pre) - Len(c))
        IN /\ to_str(chrs) = c \o p
           /\ len(chrs) = Len(c) + Len(p)
           /\ argS = p \o retS
           /\ Beyond(chrs) = SubSeq(pre, len(chrs) + 2, Len(pre))
           /\ argS = <<>> => (chrs = pre /\ retS = <<>>)

\* a push onto a non-empty string that stops before a two-byte character
\* although one byte is still free
C2_Witness ==
    /\ op = "push" /\ ValidStr(pre) /\ len(pre) > 0
    /\ retS # <<>> /\ retS # argS
    /\ retS[1] >= 128
    /\ len(chrs) = capacity(chrs) - 1

(***************************************************************************)
(* C3  substr(start, end) is character-indexed and total: it never panics, *)
(* returns a same-capacity string holding exactly the characters with      *)
(* index in [start, min(end, charlen())) with len() their byte length, the *)
(* empty string when start >= charlen() or end <= start, and leaves the    *)
(* source unmodified.                                                      *)
(***************************************************************************)
C3_SubstrCharIndexedTotal ==
    (op = "substr" /\ ValidStr(pre)) =>
        /\ ~panicked
        /\ Len(res) = Len(pre)
        /\ LenByteInRange(res)
        /\ to_str(res) = CharRange(to_str(pre), argI, argJ)
        /\ len(res) = Len(CharRange(to_str(pre), argI, argJ))
        /\ chrs = pre

(***************************************************************************)
(* C4  Concatenation never overflows or truncates: on every rung of Add,   *)
(* a + b does not panic on a slice range, has the capacity of the Output   *)
(* type, length a.len() + b.len() within that capacity, and the content of *)
(* a followed byte for byte by the content of b.                           *)
(***************************************************************************)
C4_AddNeverOverflows ==
    op = "add" =>
        /\ ~panicked
        /\ Len(res) = AddOutput(cap)
        /\ len(res) = len(chrs) + len(other)
        /\ LenByteInRange(res)
        /\ to_str(res) = to_str(chrs) \o to_str(other)

\* the sum of two full str128 operands
C4_Witness ==
    /\ op = "add" /\ cap = 128
    /\ len(chrs) = 127 /\ len(other) = 127
    /\ len(res) = 254

(***************************************************************************)
(* C5  Equality reads no stale byte: a == b holds exactly when the valid   *)
(* byte ranges of a and b are equal, that is exactly when cmp(a, b)        *)
(* returns Equal.                                                          *)
(***************************************************************************)
C5_EqIffCmpEqual ==
    /\ eq(chrs, other) <=> (to_str(chrs) = to_str(other))
    /\ eq(chrs, other) <=> (cmp(chrs, other) = "Equal")

(***************************************************************************)
(* C6  set(i, c) returns true exactly when i < charlen() and c encodes to  *)
(* as many bytes as the i-th character; then only the bytes of that        *)
(* character are replaced, by the encoding of c; otherwise the string is   *)
(* left unchanged.                                                         *)
(***************************************************************************)
C6_SetSameWidthOnly ==
    (op = "set" /\ ValidStr(pre)) =>
        LET cs == chars(to_str(pre))
            fits == argI < Len(cs) /\ len_utf8(argJ) = len_utf8(cs[argI + 1])
            off == Len(StrOf(SubSeq(cs, 1, argI)))
        IN /\ retB <=> fits
           /\ fits => /\ chrs = CopyInto(pre, off + 1, encode_utf8(argJ))
                      /\ chars(to_str(chrs)) = [cs EXCEPT ![argI + 1] = argJ]
                      /\ len(chrs) = len(pre)
                      /\ charlen(chrs) = charlen(pre)
           /\ ~fits => chrs = pre

\* a two-byte character after the first replaced by another one
C6_Witness ==
    /\ op = "set" /\ ValidStr(pre)
    /\ retB /\ argI > 0 /\ argJ >= 128
    /\ chrs # pre

(***************************************************************************)
(* C7  truncate(n) keeps exactly the first n characters: for n < charlen() *)
(* the content becomes the first n characters and len() the byte offset of *)
(* the n-th character boundary; for n >= charlen() nothing changes; and    *)
(* truncating again with the same n changes nothing.                       *)
(***************************************************************************)
C7_TruncateKeepsFirstChars ==
    (op = "truncate" /\ ValidStr(pre)) =>
        LET cs == chars(to_str(pre))
            kept == StrOf(SubSeq(cs, 1, argI))
        IN /\ argI < Len(cs) =>
                /\ to_str(chrs) = kept
                /\ len(chrs) = Len(kept)
                /\ SubSeq(chrs, 2, Len(chrs)) = SubSeq(pre, 2, Len(pre))
           /\ argI >= Len(cs) => chrs = pre
           /\ truncate(chrs, argI) = chrs

\* a cut after a two-byte character: the byte length exceeds n
C7_Witness ==
    /\ op = "truncate" /\ ValidStr(pre)
    /\ argI > 0 /\ argI < charlen(pre)
    /\ len(chrs) > argI

(***************************************************************************)
(* C8  Formatting with rejection (write!, try_format!).                    *)
(***************************************************************************)
\* C8 as claimed: a formatted write is all-or-nothing: on failure the
\* target has the length and content it had before the first fragment.
C8_WriteAllOrNothing ==
    /\ FormatsOrRejects
    /\ (op = "write" /\ ~retB) =>
        (to_str(chrs) = to_str(pre) /\ len(chrs) = len(pre))

\* C8 as amended: a formatted write fails exactly when the target's length
\* plus the total length of the fragments exceeds N-1; on success the
\* content is the previous content followed by all fragments; on failure
\* of write! the target holds its previous content followed by the whole
\* fragments that precede the first one that did not fit (no fragment is
\* written in part); try_format! then yields None.
C8_WriteRejectsPerFragment ==
    /\ FormatsOrRejects
    /\ (op = "write" /\ ~retB) =>
        /\ to_str(chrs) =
             to_str(pre) \o Concat(WholeFragmentsThatFit(frags, capacity(pre) - len(pre)))
        /\ Len(WholeFragmentsThatFit(frags, capacity(pre) - len(pre))) < Len(frags)

\* a failed write! onto a non-empty target that kept an earlier fragment
C8_Witness ==
    /\ op = "write" /\ ~retB
    /\ len(pre) > 0
    /\ len(chrs) > len(pre)

(***************************************************************************)
(* C9  str_format! appends its fragments with the logic of push: the       *)
(* result equals new() followed by push of each fragment in order, the     *)
(* longest whole-character prefix of the concatenated fragments that fits  *)
(* in N-1 bytes.                                                           *)
(***************************************************************************)
C9_StrFormatLikePush ==
    op = "str_format" =>
        /\ res = PushAll(new(cap), frags)
        /\ to_str(res) = LongestFit(Concat(frags), cap - 1)

(***************************************************************************)
(* C10  make and create agree on inputs that fit and differ on overflow:   *)
(* for byte length < N both yield length and content of s; for byte length *)
(* >= N make panics while create does not and keeps the first N-1 bytes;   *)
(* new() is the length-0 case.                                             *)
(***************************************************************************)
C10_MakeCreateAgree ==
    /\ op = "make" =>
        /\ panicked <=> Len(argS) >= cap
        /\ ~panicked =>
            /\ len(chrs) = Len(argS)
            /\ to_str(chrs) = argS
            /\ chrs = create(cap, argS)
    /\ op = "create" =>
        /\ ~panicked
        /\ Len(res) = cap
        /\ LenByteInRange(res)
        /\ Len(argS) < cap =>
            /\ len(res) = Len(argS)
            /\ to_str(res) = argS
            /\ ~make(cap, argS).panicked /\ res = make(cap, argS).chrs
        /\ Len(argS) >= cap =>
            /\ len(res) = cap - 1
            /\ to_str(res) = SubSeq(argS, 1, cap - 1)
            /\ make(cap, argS).panicked
    /\ op = "new" => (len(chrs) = 0 /\ to_str(chrs) = <<>> /\ ~panicked)

\* create for str256 of an input that does not fit, cut inside a two-byte
\* character
C10_Witness ==
    /\ op = "create" /\ cap = 256 /\ Len(argS) >= cap
    /\ len(res) = cap - 1
    /\ res[cap] = 206

(***************************************************************************)
(* C11: resize round trip.  x.resize::<M>() has exactly M bytes of         *)
(* storage; when M >= x.len() + 1 it has the length and the content of x,  *)
(* and resizing it back to the capacity of x gives the length and content  *)
(* of x again; when M - 1 < x.len() it holds the first M - 1 bytes of x    *)
(* with length M - 1.  resize never fails.                                 *)
(***************************************************************************)
C11_ResizeRoundTrip ==
    /\ op = "resize" =>
        /\ ~panicked
        /\ Len(res) = argI
        /\ IF argI >= len(chrs) + 1
           THEN len(res) = len(chrs) /\ to_str(res) = to_str(chrs)
           ELSE /\ len(res) = argI - 1
                /\ to_str(res) = SubSeq(to_str(chrs), 1, argI - 1)
    /\ (op = "resize_back" /\ argI >= len(chrs) + 1) =>
        /\ ~panicked
        /\ Len(res) = cap
        /\ len(res) = len(chrs)
        /\ to_str(res) = to_str(chrs)

\* a string with stale bytes behind its end went to a smaller capacity that
\* still holds it and came back with its content, the stale bytes gone
C11_Witness ==
    /\ op = "resize_back"
    /\ argI < cap /\ argI >= len(chrs) + 1
    /\ len(chrs) > 0
    /\ to_str(res) = to_str(chrs)
    /\ res # chrs

(***************************************************************************)
(* C12: the constructors that report failure are lossless or fail, and     *)
(* never abort.  try_make(s) is Ok exactly when s has at most N - 1 bytes, *)
(* and then holds s; otherwise it is Err with s itself.                    *)
(* x.reallocate::<M>() is Some exactly when x.len() <= M - 1, and then has *)
(* the length and content of x; otherwise it is None.  Neither ever gives  *)
(* a shortened string.                                                     *)
(***************************************************************************)
C12_TryMakeReallocateLossless ==
    /\ op = "try_make" =>
        /\ ~panicked
        /\ retB = (Len(argS) <= cap - 1)
        /\ retB => Len(res) = cap /\ len(res) = Len(argS) /\ to_str(res) = argS
        /\ ~retB => retS = argS /\ res = <<>>
    /\ op = "reallocate" =>
        /\ ~panicked
        /\ retB = (len(chrs) <= argI - 1)
        /\ retB => /\ Len(res) = argI
                   /\ len(res) = len(chrs)
                   /\ to_str(res) = to_str(chrs)
        /\ ~retB => res = <<>>

\* a full str256 (255 bytes) did not fit the smaller type it was
\* reallocated to
C12_Witness ==
    /\ op = "reallocate"
    /\ cap = 256 /\ len(chrs) = cap - 1
    /\ argI < cap
    /\ ~retB

\* byte offset n is where a character of s starts, or the end of s
OnCharBoundary(s, n) ==
    \E k \in 0..Len(chars(s)) : Len(StrOf(SubSeq(chars(s), 1, k))) = n

(***************************************************************************)
(* C13: truncate_bytes(n).  When n >= len() nothing happens: no abort, the *)
(* string is unchanged.  When n < len() and n is a character boundary of   *)
(* the content, the length becomes n and the content the first n bytes     *)
(* (the bytes of the array stay where they are).  When n < len() and n is  *)
(* inside a multi-byte character the call aborts and the string is left as *)
(* it was: a length that splits a character is never stored.               *)
(***************************************************************************)
C13_TruncateBytesBoundary ==
    (op = "truncate_bytes" /\ ValidStr(pre)) =>
        LET s == to_str(pre)
        IN /\ argI >= len(pre) => ~panicked /\ chrs = pre
           /\ (argI < len(pre) /\ OnCharBoundary(s, argI)) =>
                /\ ~panicked
                /\ len(chrs) = argI
                /\ to_str(chrs) = SubSeq(s, 1, argI)
                /\ SubSeq(chrs, 2, Len(chrs)) = SubSeq(pre, 2, Len(pre))
           /\ (argI < len(pre) /\ ~OnCharBoundary(s, argI)) =>
                panicked /\ chrs = pre
           /\ ValidStr(chrs)

\* a cut asked for in the middle of a two-byte character: the call aborted
C13_Witness ==
    /\ op = "truncate_bytes" /\ ValidStr(pre)
    /\ argI > 0 /\ argI < len(pre)
    /\ ~OnCharBoundary(to_str(pre), argI)
    /\ panicked /\ chrs = pre

(***************************************************************************)
(* C14: UTF-8 validity under the boundary-safe operations.  A string that  *)
(* starts as new() or make(s) and is changed only by push, set, truncate,  *)
(* truncate_bytes, clear, make_ascii_lowercase, make_ascii_uppercase and   *)
(* formatted writes always has a length within its capacity and whole,     *)
(* validly encoded characters in chrs[1 .. chrs[0]+1], whatever stale      *)
(* bytes lie behind its end; and the sum of two such strings is again such *)
(* a string, the very array make builds from the concatenated content.     *)
(***************************************************************************)
C14_Utf8ValidityInvariant ==
    /\ ValidStr(chrs)
    /\ op = "add" =>
        /\ ~panicked
        /\ ValidStr(res)
        /\ res = make(AddOutput(cap), to_str(res)).chrs

\* after a push the bytes behind the end of the string are the tail of an
\* older, longer content and start in the middle of a character
C14_Witness ==
    /\ op = "push"
    /\ len(chrs) > len(pre) /\ len(chrs) < capacity(chrs)
    /\ ~IsUtf8(Beyond(chrs))
    /\ ValidStr(chrs)

====
